---- MODULE Spec2Model ----
(***************************************************************************)
(* Model of pr_tree.py: the branch forest built from pull requests         *)
(* (create_tree), the closed-PR pruner (trim_closed_prs), the depth-first  *)
(* traversal (_depth_first), the tree renderer (Print.__print), the rebase *)
(* planner and executor (UpdateDependencies.main) and the shared-history   *)
(* trimmer (filtered_rebase_start_commit).                                 *)
(*                                                                         *)
(* Python objects live in a heap: `nodes` is the sequence of all TreeNode  *)
(* objects ever constructed, a node reference is its index, None is 0.     *)
(* Python dicts are sequences of <<key, value>> pairs in insertion order.  *)
(***************************************************************************)
EXTENDS Integers, Sequences, FiniteSets, TLC

\* ------------------------------------------------------------------ bounds
MaxPrs == 3
MaxCommits == 3
PlanMaxCommits == 1

Branches == {"M", "X", "Y", "Z"}
Messages == {"m0", "m1", "m2", "m3"}
PlanMessages == {"m0", "m1"}

None == 0

\* ----------------------------------------------------------------- helpers
Range(s) == {s[i] : i \in DOMAIN s}

Reversed(s) == [i \in 1..Len(s) |-> s[Len(s) + 1 - i]]

Perms(S) == {p \in [1..Cardinality(S) -> S] : \A i, j \in DOMAIN p : i # j => p[i] # p[j]}

\* Python dict: membership, lookup, assignment (insertion order is kept, an
\* existing key keeps its position and gets the new value).
DictHas(d, k) == \E i \in DOMAIN d : d[i][1] = k

DictGet(d, k) == d[CHOOSE i \in DOMAIN d : d[i][1] = k][2]

DictSet(d, k, v) ==
    IF DictHas(d, k)
    THEN [i \in DOMAIN d |-> IF d[i][1] = k THEN <<k, v>> ELSE d[i]]
    ELSE Append(d, <<k, v>>)

DictKeys(d) == {d[i][1] : i \in DOMAIN d}

\* ------------------------------------------------------------------- state
VARIABLES
    cmd,                    \* the nested subcommand being run
    pc,                     \* position in the subcommand's main()
    prs,                    \* the user's PRs as fetched, in order
    head_to_base,           \* create_tree: dict head branch -> base branch
    head_to_pr,             \* create_tree: dict head branch -> PR (index in prs)
    nodes,                  \* heap of TreeNode objects
    leafs,                  \* create_tree: dict branch -> node of the current level
    roots,                  \* list of root nodes
    root,                   \* --root
    dry_run,                \* --dry-run
    delete,                 \* --delete
    filter_similar_titles,  \* --filter-similar-titles
    local_sha,              \* working copy: branch -> commit, as far as read
    cursor,                 \* position of the running for loop
    root_node,              \* UpdateDependencies.main: root_node
    dependencies,           \* UpdateDependencies.main: dependencies
    rebase_steps,           \* UpdateDependencies.main: rebase_steps
    calls,                  \* mutating commands run so far, with their outcome
    stdout,                 \* the line most recently printed
    base_commits,           \* filtered_rebase_start_commit: base_commits
    child_commits,          \* filtered_rebase_start_commit: child_commits
    filtered_start          \* filtered_rebase_start_commit: returned value

vars == <<cmd, pc, prs, head_to_base, head_to_pr, nodes, leafs, roots, root,
          dry_run, delete, filter_similar_titles, local_sha, cursor, root_node,
          dependencies, rebase_steps, calls, stdout, base_commits,
          child_commits, filtered_start>>

treeVars == <<head_to_base, head_to_pr, nodes, leafs, roots>>
flagVars == <<cmd, prs, root, dry_run, delete, filter_similar_titles>>
planVars == <<root_node, dependencies, rebase_steps>>
trimmerVars == <<base_commits, child_commits, filtered_start>>

\* -------------------------------------------------------------- PrInfo
PrInfo(head, base, open) ==
    [head_branch_name |-> head, base_branch_name |-> base, is_open |-> open]

\* -------------------------------------------------------------- TreeNode
TreeNode(base_node, head_branch, pr_info) ==
    [base_node |-> base_node, head_branch |-> head_branch,
     pr_info |-> pr_info, children |-> <<>>]

is_root(heap, n) == heap[n].base_node = None

has_children(heap, n) == heap[n].children # <<>>

\* list.index: position of the first element equal to x
IndexOf(s, x) == CHOOSE i \in DOMAIN s : s[i] = x /\ \A j \in 1..(i - 1) : s[j] # x

\* A plausible slip: the index compared with that of the first sibling.
is_first_sibling(heap, n) ==
    IF heap[n].base_node = None
    THEN TRUE
    ELSE IndexOf(heap[heap[n].base_node].children, n) - 1 = 0

\* lines 141-146
is_last_sibling(heap, n) ==
    IF heap[n].base_node = None
    THEN TRUE
    ELSE LET siblings == heap[heap[n].base_node].children
         IN  IndexOf(siblings, n) - 1 = Len(siblings) - 1

\* -------------------------------------------------------------- _depth_first
RECURSIVE transverse(_, _, _), TransverseEach(_, _, _)
transverse(heap, node, chain) ==
    <<<<node, chain>>>> \o TransverseEach(heap, heap[node].children, Append(chain, node))

TransverseEach(heap, ms, chain) ==
    IF ms = <<>> THEN <<>>
    ELSE transverse(heap, Head(ms), chain) \o TransverseEach(heap, Tail(ms), chain)

depth_first(heap, ns) == TransverseEach(heap, ns, <<>>)

\* -------------------------------------------------------------- create_tree
RECURSIVE BuildHeadToBase(_, _), BuildHeadToPr(_, _)
BuildHeadToBase(ps, n) ==
    IF n = 0 THEN <<>>
    ELSE DictSet(BuildHeadToBase(ps, n - 1), ps[n].head_branch_name, ps[n].base_branch_name)

BuildHeadToPr(ps, n) ==
    IF n = 0 THEN <<>>
    ELSE DictSet(BuildHeadToPr(ps, n - 1), ps[n].head_branch_name, n)

get_pr(h2p, branch) == IF DictHas(h2p, branch) THEN DictGet(h2p, branch) ELSE None

\* The keys of the initial `leafs` dict, in insertion order: one key per
\* distinct base branch that is not a head.
RECURSIVE RootBranchesFrom(_, _)
RootBranchesFrom(h2b, n) ==
    IF n = 0 THEN <<>>
    ELSE LET before == RootBranchesFrom(h2b, n - 1)
             b == h2b[n][2]
         IN  IF DictHas(h2b, b) \/ b \in Range(before) THEN before ELSE Append(before, b)

\* A plausible slip: the roots collected in a list, one per edge.
RECURSIVE RootBranchesPerEdge(_, _)
RootBranchesPerEdge(h2b, n) ==
    IF n = 0 THEN <<>>
    ELSE LET before == RootBranchesPerEdge(h2b, n - 1)
             b == h2b[n][2]
         IN  IF DictHas(h2b, b) THEN before ELSE Append(before, b)

RootBranchesDup(h2b) == RootBranchesPerEdge(h2b, Len(h2b))

RootBranches(h2b) == RootBranchesFrom(h2b, Len(h2b))

\* A plausible slip: every base branch starts a tree, heads included.
RECURSIVE AllBasesFrom(_, _)
AllBasesFrom(h2b, n) ==
    IF n = 0 THEN <<>>
    ELSE LET before == AllBasesFrom(h2b, n - 1)
             b == h2b[n][2]
         IN  IF b \in Range(before) THEN before ELSE Append(before, b)

InitialLeafKeysAll(h2b) == AllBasesFrom(h2b, Len(h2b))

InitialLeafKeys(h2b) == RootBranches(h2b)

\* lines 365-381: the lookups, the root nodes and the first level.
CreateTreeStart ==
    /\ pc = "create_tree"
    /\ LET h2b == BuildHeadToBase(prs, Len(prs))
           h2p == BuildHeadToPr(prs, Len(prs))
           keys == InitialLeafKeys(h2b)
       IN  /\ head_to_base' = h2b
           /\ head_to_pr' = h2p
           /\ nodes' = [i \in 1..Len(keys) |-> TreeNode(None, keys[i], get_pr(h2p, keys[i]))]
           /\ leafs' = [i \in 1..Len(keys) |-> <<keys[i], i>>]
           /\ roots' = [i \in 1..Len(keys) |-> i]
    /\ pc' = "create_tree_loop"
    /\ UNCHANGED <<flagVars, planVars, trimmerVars, local_sha, cursor, calls, stdout>>

\* lines 387-393: the edges based on leaf l get a node each under leafs[l].
RECURSIVE ScanEdges(_, _, _, _, _)
ScanEdges(h2b, h2p, i, l, acc) ==
    IF i > Len(h2b) THEN acc
    ELSE IF h2b[i][2] = l
         THEN LET h == h2b[i][1]
                  parent == DictGet(acc.leafs, l)
                  new_node == Len(acc.heap) + 1
                  heap1 == Append(acc.heap, TreeNode(parent, h, get_pr(h2p, h)))
                  heap2 == [heap1 EXCEPT ![parent].children = Append(@, new_node)]
              IN  ScanEdges(h2b, h2p, i + 1, l,
                            [acc EXCEPT !.heap = heap2,
                                        !.next_leafs = DictSet(@, h, new_node)])
         ELSE ScanEdges(h2b, h2p, i + 1, l, acc)

\* lines 386-393: the leaves of the level, in the iteration order of the set.
RECURSIVE ScanLeafs(_, _, _, _)
ScanLeafs(h2b, h2p, order, acc) ==
    IF order = <<>> THEN acc
    ELSE ScanLeafs(h2b, h2p, Tail(order), ScanEdges(h2b, h2p, 1, Head(order), acc))

\* lines 383-395: one iteration of `while leafs`.  leaf_branches is a set of
\* strings, so its iteration order is any order.
ExpandLevel ==
    /\ pc = "create_tree_loop"
    /\ leafs # <<>>
    /\ \E order \in Perms(DictKeys(leafs)) :
         LET acc == ScanLeafs(head_to_base, head_to_pr, order,
                              [heap |-> nodes, leafs |-> leafs, next_leafs |-> <<>>])
         IN  /\ nodes' = acc.heap
             /\ leafs' = acc.next_leafs
    /\ UNCHANGED <<pc, head_to_base, head_to_pr, roots, flagVars, planVars, trimmerVars,
                   local_sha, cursor, calls, stdout>>

\* lines 383, 397: `leafs` is empty, create_tree returns roots.
CreateTreeReturn ==
    /\ pc = "create_tree_loop"
    /\ leafs = <<>>
    /\ pc' = "trim_closed_prs"
    /\ UNCHANGED <<treeVars, flagVars, planVars, trimmerVars, local_sha, cursor, calls, stdout>>

\* -------------------------------------------------------------- trim_closed_prs
Remove(s, x) ==
    LET i == IndexOf(s, x)
    IN  [j \in 1..(Len(s) - 1) |-> IF j < i THEN s[j] ELSE s[j + 1]]

\* line 408: node.pr_info and node.pr_info.is_open()
HasOpenPr(heap, n) == heap[n].pr_info # None /\ prs[heap[n].pr_info].is_open

\* A plausible slip: the check of line 410 left out.
IgnoreChildren(heap, n) == FALSE

\* line 410: node.children
HasUntrimmedChildren(heap, n) == heap[n].children # <<>>

\* lines 402-414: the loop over the reversed traversal, which was listed in
\* full before the first removal.
RECURSIVE TrimEach(_, _)
TrimEach(walk, acc) ==
    IF walk = <<>> THEN acc
    ELSE LET node == Head(walk)[1]
             base == acc.heap[node].base_node
         IN  IF base = None
             THEN TrimEach(Tail(walk), [acc EXCEPT !.new_roots = Append(@, node)])
             ELSE IF HasOpenPr(acc.heap, node) \/ HasUntrimmedChildren(acc.heap, node)
             THEN TrimEach(Tail(walk), acc)
             ELSE TrimEach(Tail(walk),
                           [acc EXCEPT !.heap = [@ EXCEPT ![base].children = Remove(@, node),
                                                          ![node].base_node = None]])

trim_closed_prs(heap, rs) ==
    TrimEach(Reversed(depth_first(heap, rs)), [heap |-> heap, new_roots |-> <<>>])

\* lines 198 and 290: roots = trim_closed_prs(roots)
TrimClosedPrs ==
    /\ pc = "trim_closed_prs"
    /\ LET trimmed == trim_closed_prs(nodes, roots)
       IN  /\ nodes' = trimmed.heap
           /\ roots' = trimmed.new_roots
    /\ pc' = IF cmd = "print" THEN "print" ELSE "plan"
    /\ cursor' = 1
    /\ UNCHANGED <<head_to_base, head_to_pr, leafs, flagVars, planVars, trimmerVars,
                   local_sha, calls, stdout>>

\* -------------------------------------------------------------- commits
\* A commit id: the tip of a branch (as GitHub recorded it, or another one
\* found locally), or the commit `back` generations behind such a tip.
Sha(branch, tip, back) == [branch |-> branch, tip |-> tip, back |-> back]

NoSha == Sha("", "none", 0)
Unread == Sha("", "unread", 0)
NoBranch == Sha("", "missing", 0)
Unset == Sha("", "unset", 0)

RemoteSha(b) == Sha(b, "remote", 0)

LocalOnlySha(b) == Sha(b, "local", 0)

head_sha(p) == RemoteSha(prs[p].head_branch_name)

LocalCommit(sha, message) == [sha |-> sha, message |-> message]

\* What `git log merge_base..tip` can list: the tip first, then its parents.
CommitLists(tip, n, msgs) ==
    UNION {{[i \in 1..k |-> LocalCommit(Sha(tip.branch, tip.tip, tip.back + i - 1), m[i])]
            : m \in [1..k -> msgs]} : k \in 0..n}

\* -------------------------------------------------------------- filtered_rebase_start_commit
\* list.index on LocalCommit, a dataclass compared by its sha
CommitIndex(commits, c) ==
    (CHOOSE i \in DOMAIN commits :
        commits[i].sha = c.sha /\ \A j \in 1..(i - 1) : commits[j].sha # c.sha) - 1

\* lines 467-471: the zip of the reversed lists, up to the first mismatch
RECURSIVE CommonCommitIndexes(_, _, _, _)
CommonCommitIndexes(rbase, rchild, commits, i) ==
    IF i > Len(rbase) \/ i > Len(rchild) THEN <<>>
    ELSE IF rbase[i].message = rchild[i].message
         THEN <<CommitIndex(commits, rchild[i])>> \o CommonCommitIndexes(rbase, rchild, commits, i + 1)
         ELSE <<>>

\* A plausible slip: the last element of the sorted list.
LastOfSorted(indexes) == CHOOSE x \in Range(indexes) : \A y \in Range(indexes) : y <= x

\* lines 473-474: sorted(common_commit_indexes)[0]
FirstOfSorted(indexes) == CHOOSE x \in Range(indexes) : \A y \in Range(indexes) : x <= y

filtered_rebase_start_commit(bcs, ccs) ==
    LET common_commit_indexes == CommonCommitIndexes(Reversed(bcs), Reversed(ccs), ccs, 1)
    IN  IF common_commit_indexes # <<>>
        THEN ccs[FirstOfSorted(common_commit_indexes) + 1].sha
        ELSE NoSha

\* The function on its own, on the lists git returned.
FilteredRebaseStartCommit ==
    /\ pc = "filtered_rebase_start_commit"
    /\ filtered_start' = filtered_rebase_start_commit(base_commits, child_commits)
    /\ pc' = "done"
    /\ UNCHANGED <<treeVars, flagVars, planVars, base_commits, child_commits,
                   local_sha, cursor, calls, stdout>>

\* -------------------------------------------------------------- get_local_sha
\* The working copy is not changed by anyone else during a run (spec section 5),
\* so a branch's commit is fixed; it is unknown until git is first asked.  A
\* branch that does not exist locally makes git fail.
get_local_sha(known, b) ==
    IF known[b] = Unread THEN {RemoteSha(b), LocalOnlySha(b), NoBranch} ELSE {known[b]}

\* -------------------------------------------------------------- UpdateDependencies.main
RebaseStep(base, base_initial_local_sha, child) ==
    [base |-> base, base_initial_local_sha |-> base_initial_local_sha, child |-> child]

\* A plausible slip: only the immediate parent is compared with --root.
ParentIsRoot(heap, ancestry) ==
    ancestry # <<>> /\ heap[ancestry[Len(ancestry)]].head_branch = root

\* line 216: self.__root in set(a.head_branch for a in ancestry)
InScope(heap, ancestry) == root \in {heap[a].head_branch : a \in Range(ancestry)}

\* A plausible slip: the test that the base is --root left out.
DeleteRetargetsAny(heap, base) == delete /\ heap[base].base_node # None

\* line 218: self.__delete and base.head_branch == self.__root and base.base_node
DeleteRetargets(heap, base) ==
    delete /\ heap[base].head_branch = root /\ heap[base].base_node # None

\* A plausible slip: the comparison left out.
NeverDiffers(local_head_sha, p) == FALSE

\* line 224: local_head_sha != node.pr_info.head_sha()
ShaDiffers(local_head_sha, p) == local_head_sha # head_sha(p)

\* lines 228-232: the start of the rebase, as far as git decides it
InitialLocalShas(base_branch_sha, node_branch_sha) ==
    IF filter_similar_titles
    THEN {LET filtered == filtered_rebase_start_commit(bcs, ccs)
          IN  IF filtered # NoSha THEN filtered ELSE base_branch_sha
          : bcs \in CommitLists(base_branch_sha, PlanMaxCommits, PlanMessages),
            ccs \in CommitLists(node_branch_sha, PlanMaxCommits, PlanMessages)}
    ELSE {base_branch_sha}

Fatal ==
    /\ pc' = "fatal"
    /\ UNCHANGED <<cursor, rebase_steps>>

\* lines 209-237: one iteration of the planning loop
PlanNode ==
    /\ pc = "plan"
    /\ LET walk == depth_first(nodes, roots)
       IN  /\ cursor <= Len(walk)
           /\ LET node == walk[cursor][1]
                  ancestry == walk[cursor][2]
                  parent == nodes[node].base_node
              IN  /\ root_node' = IF nodes[node].head_branch = root THEN node ELSE root_node
                  /\ IF parent = None \/ ~InScope(nodes, ancestry)
                     THEN /\ cursor' = cursor + 1
                          /\ UNCHANGED <<pc, dependencies, rebase_steps, local_sha>>
                     ELSE LET retarget == DeleteRetargets(nodes, parent)
                              base == IF retarget THEN nodes[parent].base_node ELSE parent
                              base_branch == nodes[base].head_branch
                              node_branch == nodes[node].head_branch
                          IN  /\ dependencies' = IF retarget THEN Append(dependencies, node)
                                                 ELSE dependencies
                              /\ \E local_base_sha \in get_local_sha(local_sha, base_branch) :
                                   LET known == [local_sha EXCEPT ![base_branch] = local_base_sha]
                                   IN  IF local_base_sha = NoBranch
                                       THEN local_sha' = known /\ Fatal
                                       ELSE \E local_head_sha \in get_local_sha(known, node_branch) :
                                              /\ local_sha' = [known EXCEPT ![node_branch] = local_head_sha]
                                              /\ IF \/ local_head_sha = NoBranch
                                                    \/ ShaDiffers(local_head_sha, nodes[node].pr_info)
                                                 THEN Fatal
                                                 ELSE \E initial_local_sha \in
                                                          InitialLocalShas(local_base_sha, local_head_sha) :
                                                        /\ rebase_steps' = Append(rebase_steps,
                                                               RebaseStep(base, initial_local_sha, node))
                                                        /\ cursor' = cursor + 1
                                                        /\ pc' = "plan"
    /\ UNCHANGED <<treeVars, flagVars, trimmerVars, calls, stdout>>

\* line 239: the planning loop is over, the execution loop starts
PlanComplete ==
    /\ pc = "plan"
    /\ cursor > Len(depth_first(nodes, roots))
    /\ pc' = "execute"
    /\ cursor' = 1
    /\ UNCHANGED <<treeVars, flagVars, planVars, trimmerVars, local_sha, calls, stdout>>

Call(command, branch, ok) == [command |-> command, branch |-> branch, ok |-> ok]

\* A plausible slip: --dry-run not looked at.
NeverSkip(flag) == FALSE

\* lines 244-245: if self.__dry_run: continue
SkipExecution(flag) == flag

\* lines 248-262: the rebase; when it fails, the shell, whose failure is passed over
RebaseCalls(step) ==
    LET child == nodes[step.child].head_branch
    IN  {<<Call("rebase", child, TRUE)>>}
        \cup {<<Call("rebase", child, FALSE), Call("bash", child, ok)>> : ok \in BOOLEAN}

\* lines 239-266: one iteration of the execution loop
ExecuteStep ==
    /\ pc = "execute"
    /\ cursor <= Len(rebase_steps)
    /\ LET step == rebase_steps[cursor]
           child == nodes[step.child].head_branch
       IN  /\ stdout' = <<"Rebasing", child, "onto", nodes[step.base].head_branch,
                          "starting from", step.base_initial_local_sha>>
           /\ IF SkipExecution(dry_run)
              THEN /\ cursor' = cursor + 1
                   /\ UNCHANGED <<pc, calls>>
              ELSE \E rebased \in RebaseCalls(step), pushed \in BOOLEAN :
                     /\ calls' = calls \o rebased \o <<Call("push", child, pushed)>>
                     /\ IF pushed
                        THEN cursor' = cursor + 1 /\ pc' = "execute"
                        ELSE cursor' = cursor /\ pc' = "fatal"
    /\ UNCHANGED <<treeVars, flagVars, planVars, trimmerVars, local_sha>>

\* lines 268-271: the manual tasks left after deleting the root branch
RemainingTasks ==
    /\ pc = "execute"
    /\ cursor > Len(rebase_steps)
    /\ stdout' = IF /\ root_node # None
                    /\ nodes[root_node].base_node # None
                    /\ nodes[root_node].pr_info # None
                    /\ delete
                 THEN IF dependencies = <<>>
                      THEN <<"Remaining tasks:">>
                      ELSE <<"Change the base of PR",
                             nodes[dependencies[Len(dependencies)]].pr_info, "to",
                             nodes[nodes[root_node].base_node].head_branch>>
                 ELSE stdout
    /\ pc' = "done"
    /\ UNCHANGED <<treeVars, flagVars, planVars, trimmerVars, local_sha, cursor, calls>>

\* -------------------------------------------------------------- Print.__print
\* The glyphs of the renderer, in ASCII: the box-drawing characters
\* "light vertical" (U+2502), "light up and right" (U+2514), "light vertical
\* and right" (U+251C), "light down and horizontal" (U+252C), "light
\* horizontal" (U+2500), and the two moons (U+1F313, U+1F315).
SpaceGlyph == " "
VerticalGlyph == "|"
LastSiblingGlyph == "L"
MiddleSiblingGlyph == "+"
RootGlyph == "-"
HasChildrenGlyph == "T "
NoChildrenGlyph == "- "
DivergedGlyph == "diverged"
SyncedGlyph == "synced"

\* lines 305-309: one glyph per ancestor
AncestorSegments(heap, parentage) ==
    [i \in DOMAIN parentage |-> IF is_last_sibling(heap, parentage[i]) THEN SpaceGlyph ELSE VerticalGlyph]

\* lines 310-315
CornerSegment(heap, node) ==
    IF is_root(heap, node) THEN RootGlyph
    ELSE IF is_last_sibling(heap, node) THEN LastSiblingGlyph
    ELSE MiddleSiblingGlyph

\* lines 317-320
ChildrenSegment(heap, node) == IF has_children(heap, node) THEN HasChildrenGlyph ELSE NoChildrenGlyph

\* lines 327-339: nothing when a branch is missing locally, else the two
\* comparisons with what git reports
SyncSegments ==
    {<<>>} \cup {<<" ", base_glyph, "->", head_glyph>> :
                   base_glyph \in {DivergedGlyph, SyncedGlyph},
                   head_glyph \in {DivergedGlyph, SyncedGlyph}}

\* lines 341-347; the joined reviewer states come from GitHub and are one
\* opaque segment here
PrSegments(p, sync) ==
    sync \o <<" [" \o ToString(p) \o "]", " ">>
         \o <<IF prs[p].is_open THEN "reviewer:state" ELSE "closed">>

line_segments(heap, node, parentage, sync) ==
    AncestorSegments(heap, parentage)
        \o <<CornerSegment(heap, node), ChildrenSegment(heap, node), heap[node].head_branch>>
        \o (IF heap[node].pr_info # None THEN PrSegments(heap[node].pr_info, sync) ELSE <<>>)

\* lines 303-349: one iteration of the rendering loop
PrintLine ==
    /\ pc = "print"
    /\ LET walk == depth_first(nodes, roots)
       IN  /\ cursor <= Len(walk)
           /\ \E sync \in SyncSegments :
                stdout' = line_segments(nodes, walk[cursor][1], walk[cursor][2], sync)
    /\ cursor' = cursor + 1
    /\ UNCHANGED <<pc, treeVars, flagVars, planVars, trimmerVars, local_sha, calls>>

\* line 303: the traversal is exhausted
PrintComplete ==
    /\ pc = "print"
    /\ cursor > Len(depth_first(nodes, roots))
    /\ pc' = "done"
    /\ UNCHANGED <<treeVars, flagVars, planVars, trimmerVars, local_sha, cursor, calls, stdout>>

\* -------------------------------------------------------------- inputs
PrInfos(opens) ==
    {PrInfo(h, b, o) : h \in Branches, b \in Branches, o \in opens}

\* prs is any list of open PRs, heads repeated and cycles included.
PrsIsAnyOpenList == \E k \in 0..MaxPrs : prs \in [1..k -> PrInfos({TRUE})]

DistinctHeadSeqs(k) ==
    {hs \in [1..k -> Branches] : \A i, j \in 1..k : i # j => hs[i] # hs[j]}

\* prs is a list of PRs of distinct head branches, with the given states.
PrsIsDistinctList(opens) ==
    \E k \in 0..MaxPrs :
        \E hs \in DistinctHeadSeqs(k), bs \in [1..k -> Branches], os \in [1..k -> opens] :
            prs = [i \in 1..k |-> PrInfo(hs[i], bs[i], os[i])]

\* Branch names are only ever compared for equality, so one name stands for
\* any --root.
RootChoices == {"X"}

InitTree ==
    /\ head_to_base = <<>>
    /\ head_to_pr = <<>>
    /\ nodes = <<>>
    /\ leafs = <<>>
    /\ roots = <<>>

InitPlan ==
    /\ local_sha = [b \in Branches |-> Unread]
    /\ cursor = 1
    /\ root_node = None
    /\ dependencies = <<>>
    /\ rebase_steps = <<>>
    /\ calls = <<>>
    /\ stdout = <<>>

InitTrimmerIdle ==
    /\ base_commits = <<>>
    /\ child_commits = <<>>
    /\ filtered_start = Unset

\* pr-tree update-dependencies --root R [--dry-run] [--delete] [--filter-similar-titles]
Init ==
    /\ cmd = "update-dependencies"
    /\ pc = "create_tree"
    /\ PrsIsDistinctList({TRUE})
    /\ root \in RootChoices
    /\ dry_run \in BOOLEAN
    /\ delete \in BOOLEAN
    /\ filter_similar_titles \in BOOLEAN
    /\ InitTree /\ InitPlan /\ InitTrimmerIdle

Next ==
    \/ CreateTreeStart
    \/ ExpandLevel
    \/ CreateTreeReturn
    \/ TrimClosedPrs
    \/ PlanNode
    \/ PlanComplete
    \/ ExecuteStep
    \/ RemainingTasks

Spec == Init /\ [][Next]_vars

\* pr-tree print
InitPrint ==
    /\ cmd = "print"
    /\ pc = "create_tree"
    /\ (PrsIsAnyOpenList \/ PrsIsDistinctList(BOOLEAN))
    /\ root = ""
    /\ dry_run = FALSE
    /\ delete = FALSE
    /\ filter_similar_titles = FALSE
    /\ InitTree /\ InitPlan /\ InitTrimmerIdle

NextPrint ==
    \/ CreateTreeStart
    \/ ExpandLevel
    \/ CreateTreeReturn
    \/ TrimClosedPrs
    \/ PrintLine
    \/ PrintComplete

SpecPrint == InitPrint /\ [][NextPrint]_vars

\* filtered_rebase_start_commit on the commit lists of a base and a child branch
InitTrimmer ==
    /\ cmd = "update-dependencies"
    /\ pc = "filtered_rebase_start_commit"
    /\ prs = <<>>
    /\ root = "X"
    /\ dry_run = FALSE
    /\ delete = FALSE
    /\ filter_similar_titles = TRUE
    /\ InitTree /\ InitPlan
    /\ base_commits \in CommitLists(LocalOnlySha("X"), MaxCommits, Messages)
    /\ child_commits \in CommitLists(RemoteSha("Y"), MaxCommits, Messages)
    /\ filtered_start = Unset

NextTrimmer == FilteredRebaseStartCommit

SpecTrimmer == InitTrimmer /\ [][NextTrimmer]_vars

\* ==================================================================
\* Properties
\* ==================================================================

\* ---- the forest, read through the nodes' own fields
RECURSIVE AncestorsOf(_, _)
AncestorsOf(heap, n) ==
    IF heap[n].base_node = None THEN {}
    ELSE {heap[n].base_node} \cup AncestorsOf(heap, heap[n].base_node)

Walk == depth_first(nodes, roots)

WalkNodes == [i \in DOMAIN Walk |-> Walk[i][1]]

BranchOf(n) == nodes[n].head_branch

\* the nodes below the node of --root
RootDescendants ==
    {n \in DOMAIN nodes : \E a \in AncestorsOf(nodes, n) : BranchOf(a) = root}

IsRootDescendant(n) == n \in RootDescendants

\* the planning loop has run to its end
PlanningDone == pc \in {"execute", "done"} \/ calls # <<>>

StepChildren == [i \in DOMAIN rebase_steps |-> rebase_steps[i].child]

StepPairs ==
    [i \in DOMAIN rebase_steps |->
        <<BranchOf(rebase_steps[i].base), BranchOf(rebase_steps[i].child)>>]

\* one step per node below --root, in traversal order, and no other step
StepsCoverDescendants ==
    /\ StepChildren = SelectSeq(WalkNodes, IsRootDescendant)
    /\ \A i \in DOMAIN rebase_steps :
         /\ nodes[rebase_steps[i].child].base_node # None
         /\ BranchOf(rebase_steps[i].child) # root
    /\ \A i, j \in DOMAIN rebase_steps :
         rebase_steps[j].base = rebase_steps[i].child => i < j

StartIsBaseCommit(step) ==
    step.base_initial_local_sha = local_sha[BranchOf(step.base)]

StartIsBaseOrChildCommit(step) ==
    \/ StartIsBaseCommit(step)
    \/ /\ filter_similar_titles
       /\ step.base_initial_local_sha.branch = BranchOf(step.child)

ChainMXYZ ==
    <<PrInfo("X", "M", TRUE), PrInfo("Y", "X", TRUE), PrInfo("Z", "Y", TRUE)>>

\* the base of every step is the parent of its child
BasesAreParents ==
    \A i \in DOMAIN rebase_steps :
        rebase_steps[i].base = nodes[rebase_steps[i].child].base_node

\* the base of a step is the parent of its child, or the parent of --root's
\* node for a child of that node when it has a parent
BasesAreRetargeted ==
    \A i \in DOMAIN rebase_steps :
        LET parent == nodes[rebase_steps[i].child].base_node
        IN  rebase_steps[i].base =
                IF BranchOf(parent) = root /\ nodes[parent].base_node # None
                THEN nodes[parent].base_node
                ELSE parent

\* C1 as stated: without --delete the plan is one step per strict descendant of
\* the root branch and no other, each step (parent, the parent's local commit,
\* child), in depth-first pre-order; M->X->Y->Z with root X gives (X,Y),(Y,Z).
C1_PlanAsStated ==
    (cmd = "update-dependencies" /\ PlanningDone /\ ~delete) =>
        /\ StepsCoverDescendants
        /\ BasesAreParents
        /\ \A i \in DOMAIN rebase_steps : StartIsBaseCommit(rebase_steps[i])
        /\ (prs = ChainMXYZ => StepPairs = <<<<"X", "Y">>, <<"Y", "Z">>>>)

\* C1 amended: the same plan, where the start of a step is the parent's local
\* commit unless --filter-similar-titles is set, and then either that commit or
\* the commit of the child branch that filtered_rebase_start_commit returned.
C1_Plan ==
    (cmd = "update-dependencies" /\ PlanningDone /\ ~delete) =>
        /\ StepsCoverDescendants
        /\ BasesAreParents
        /\ \A i \in DOMAIN rebase_steps : StartIsBaseOrChildCommit(rebase_steps[i])
        /\ (prs = ChainMXYZ => StepPairs = <<<<"X", "Y">>, <<"Y", "Z">>>>)

C1_Witness ==
    /\ pc = "execute" /\ cursor = 1 /\ ~delete /\ prs = ChainMXYZ
    /\ Len(rebase_steps) = 2
    /\ filter_similar_titles
    /\ ~StartIsBaseCommit(rebase_steps[2])

\* C2 as stated: with --delete the plan has the same children in the same
\* order, a child of the root branch is based on the root branch's parent (when
\* there is one) and starts at that parent's local commit, deeper descendants
\* keep their parent; M->X->Y->Z with root X gives (M,Y),(Y,Z).
C2_DeletePlanAsStated ==
    (cmd = "update-dependencies" /\ PlanningDone /\ delete) =>
        /\ StepsCoverDescendants
        /\ BasesAreRetargeted
        /\ \A i \in DOMAIN rebase_steps : StartIsBaseCommit(rebase_steps[i])
        /\ (prs = ChainMXYZ => StepPairs = <<<<"M", "Y">>, <<"Y", "Z">>>>)

\* C2 amended: the same, where the start of a step is its base's local commit
\* unless --filter-similar-titles is set, and then either that commit or the
\* commit of the child branch that filtered_rebase_start_commit returned.
C2_DeletePlan ==
    (cmd = "update-dependencies" /\ PlanningDone /\ delete) =>
        /\ StepsCoverDescendants
        /\ BasesAreRetargeted
        /\ \A i \in DOMAIN rebase_steps : StartIsBaseOrChildCommit(rebase_steps[i])
        /\ (prs = ChainMXYZ => StepPairs = <<<<"M", "Y">>, <<"Y", "Z">>>>)

C2_Witness ==
    /\ pc = "execute" /\ cursor = 1 /\ delete /\ prs = ChainMXYZ
    /\ StepPairs = <<<<"M", "Y">>, <<"Y", "Z">>>>
    /\ dependencies # <<>>

\* ---- C3
\* the local commit of the node's branch has been read and is not the head
\* commit of its PR
LocalDiffers(n) ==
    /\ nodes[n].pr_info # None
    /\ local_sha[BranchOf(n)] = LocalOnlySha(BranchOf(n))

LocalAgrees(n) ==
    /\ nodes[n].pr_info # None
    /\ local_sha[BranchOf(n)] = head_sha(nodes[n].pr_info)

\* C3: a strict descendant of the root branch whose local commit differs from
\* its PR's head commit makes planning fail: the run is fatal, no step is
\* executed or printed, no rebase and no push is run; a run that gets to
\* execute anything has found every descendant's commits to agree.
C3_MismatchAbortsPlanning ==
    cmd = "update-dependencies" =>
        /\ (\E n \in RootDescendants : LocalDiffers(n)) =>
               pc = "fatal" /\ calls = <<>> /\ stdout = <<>>
        /\ PlanningDone => \A n \in RootDescendants : LocalAgrees(n)

C3_Witness ==
    /\ pc = "fatal" /\ ~dry_run /\ calls = <<>>
    /\ \E n \in RootDescendants : LocalDiffers(n)
    /\ \E n \in RootDescendants : LocalAgrees(n)
    /\ rebase_steps # <<>>

\* ---- C4
\* C4 as stated: a failed push, or a failed resolution shell after a failed
\* rebase, is the last command the run executes, and the run is fatal.
C4_FailureStopsRun ==
    \A i \in DOMAIN calls :
        (calls[i].command \in {"bash", "push"} /\ ~calls[i].ok) =>
            i = Len(calls) /\ pc = "fatal"

\* ---- C5
RebasingLine(step) ==
    <<"Rebasing", BranchOf(step.child), "onto", BranchOf(step.base),
      "starting from", step.base_initial_local_sha>>

\* C5: with --dry-run no rebase, shell or push is ever run, the plan is the
\* plan of a real run (one step per descendant of the root branch, every one
\* checked against its PR's head commit), and each step is printed in turn.
C5_DryRunChangesNothing ==
    (cmd = "update-dependencies" /\ dry_run) =>
        /\ calls = <<>>
        /\ pc \in {"execute", "done"} =>
              /\ StepsCoverDescendants
              /\ \A n \in RootDescendants : LocalAgrees(n)
        /\ (pc = "execute" /\ cursor > 1) => stdout = RebasingLine(rebase_steps[cursor - 1])
        /\ pc = "done" => cursor = Len(rebase_steps) + 1

C5_Witness ==
    /\ dry_run /\ pc = "done" /\ Len(rebase_steps) = 3 /\ calls = <<>>

\* ---- the (head, base) edges, as a graph on branch names
InputEdges ==
    {<<prs[i].head_branch_name, prs[i].base_branch_name>> : i \in DOMAIN prs}

\* the edge of the last PR listed for each head branch
LastEdges ==
    {<<prs[i].head_branch_name, prs[i].base_branch_name>> :
       i \in {k \in DOMAIN prs :
                \A j \in DOMAIN prs :
                    prs[j].head_branch_name = prs[k].head_branch_name => j <= k}}

HeadsOf(E) == {e[1] : e \in E}

BasesOf(E, S) == {e[2] : e \in {x \in E : x[1] \in S}}

RECURSIVE UpFrom(_, _, _)
UpFrom(E, S, n) ==
    LET T == S \cup BasesOf(E, S)
    IN  IF n = 0 \/ T = S THEN S ELSE UpFrom(E, T, n - 1)

\* the branches a branch is based on, directly or transitively
Above(E, a) == UpFrom(E, BasesOf(E, {a}), Cardinality(Branches))

HasCycle(E) == \E a \in HeadsOf(E) : a \in Above(E, a)

OnOrBelowCycle(E, a) == \E c \in {a} \cup Above(E, a) : c \in Above(E, c)

RECURSIVE Below(_, _)
Below(heap, n) == {n} \cup UNION {Below(heap, heap[n].children[i]) : i \in DOMAIN heap[n].children}

RootsReaching(n) == {i \in DOMAIN roots : n \in Below(nodes, roots[i])}

NodesOfBranch(b) == {n \in DOMAIN nodes : BranchOf(n) = b}

RootsOfBranch(b) == {i \in DOMAIN roots : BranchOf(roots[i]) = b}

\* create_tree has returned and nothing has touched the forest yet
Built == pc = "trim_closed_prs"

\* every edge of E has one node for its head, under the node of its base, and
\* a base that is no head is one root
ForestHasEdges(E) ==
    /\ \A e \in E :
         /\ Cardinality(NodesOfBranch(e[1])) = 1
         /\ \A n \in NodesOfBranch(e[1]) :
              /\ nodes[n].base_node # None
              /\ BranchOf(nodes[n].base_node) = e[2]
              /\ n \in Range(nodes[nodes[n].base_node].children)
    /\ \A e \in E :
         e[2] \notin HeadsOf(InputEdges) =>
             /\ Cardinality(RootsOfBranch(e[2])) = 1
             /\ \A n \in NodesOfBranch(e[2]) : n \in Range(roots)

\* C6 as stated: for a non-cyclic set of edges every node is reachable from
\* exactly one returned root, every head of the input is exactly one node whose
\* parent is the node of its base, and every base that is no head is exactly
\* one returned root.
C6_ForestAsStated ==
    (Built /\ ~HasCycle(InputEdges)) =>
        /\ \A n \in DOMAIN nodes : Cardinality(RootsReaching(n)) = 1
        /\ ForestHasEdges(InputEdges)

\* C6 amended: the same, where the base of a head listed by several PRs is the
\* base of the last of them: the parent of a head's node is the node of that
\* base, and the roots are the bases of those last PRs that are no head.
C6_Forest ==
    (Built /\ ~HasCycle(InputEdges)) =>
        /\ \A n \in DOMAIN nodes : Cardinality(RootsReaching(n)) = 1
        /\ ForestHasEdges(LastEdges)
        /\ \A n \in DOMAIN nodes :
             \/ BranchOf(n) \in HeadsOf(LastEdges)
             \/ \E e \in LastEdges : e[2] = BranchOf(n)

C6_Witness ==
    /\ Built /\ ~HasCycle(InputEdges)
    /\ InputEdges # LastEdges
    /\ Len(nodes) = 3
    /\ \E n \in DOMAIN nodes : Len(nodes[n].children) = 2

\* ---- C7
HeadToBaseEdges == {<<head_to_base[i][1], head_to_base[i][2]>> : i \in DOMAIN head_to_base}

\* the node was built below another node
WasChild(n) == DictHas(head_to_base, BranchOf(n))

BuiltDescendants(n) ==
    {d \in DOMAIN nodes : WasChild(d) /\ BranchOf(n) \in Above(HeadToBaseEdges, BranchOf(d))}

IsOpenNode(n) == nodes[n].pr_info # None /\ prs[nodes[n].pr_info].is_open

InForest(n) == n \in Range(WalkNodes)

Trimmed == cmd = "print" /\ pc \in {"print", "done"}

\* C7: after trim_closed_prs a node with an open PR is in the forest under the
\* parent it was built under; a node below a root without an open PR is in the
\* forest exactly when a node built below it has an open PR, so no leaf below a
\* root is closed; every root is returned once; a removed node is no root, no
\* child and in no traversal.
C7_Trimmed ==
    Trimmed =>
        LET forest == Range(WalkNodes)
        IN  \A n \in DOMAIN nodes :
                IF WasChild(n)
                THEN /\ IsOpenNode(n) =>
                          /\ n \in forest
                          /\ nodes[n].base_node # None
                          /\ BranchOf(nodes[n].base_node) = DictGet(head_to_base, BranchOf(n))
                          /\ n \in Range(nodes[nodes[n].base_node].children)
                     /\ ~IsOpenNode(n) =>
                          (n \in forest <=> \E d \in BuiltDescendants(n) : IsOpenNode(d))
                     /\ (n \in forest /\ nodes[n].children = <<>>) => IsOpenNode(n)
                     /\ n \notin forest =>
                          /\ n \notin Range(roots)
                          /\ \A m \in DOMAIN nodes : n \notin Range(nodes[m].children)
                ELSE Cardinality({i \in DOMAIN roots : roots[i] = n}) = 1

C7_Witness ==
    /\ Trimmed
    /\ \E n, m \in DOMAIN nodes :
         /\ WasChild(n) /\ WasChild(m)
         /\ DictGet(head_to_base, BranchOf(m)) = BranchOf(n)
         /\ ~InForest(n) /\ ~InForest(m)
    /\ \E r \in Range(roots) : nodes[r].children = <<>>

\* ---- C8
\* one root with children a then c, a with one child b, b and c without children
TwoLevelForest ==
    /\ Len(roots) = 1
    /\ Len(nodes[roots[1]].children) = 2
    /\ LET a == nodes[roots[1]].children[1]
           c == nodes[roots[1]].children[2]
       IN  /\ Len(nodes[a].children) = 1
           /\ nodes[c].children = <<>>
           /\ nodes[nodes[a].children[1]].children = <<>>

Prefix(s, n) == IF Len(s) >= n THEN SubSeq(s, 1, n) ELSE <<"short line">>

\* C8 as stated: the line of b begins with the vertical connector, then the
\* last-sibling corner and the no-children glyph; the line of c begins with
\* the last-sibling corner and the no-children glyph.
C8_LinesAsStated ==
    (cmd = "print" /\ pc = "print" /\ TwoLevelForest) =>
        /\ cursor = 4 => Prefix(stdout, 3) = <<VerticalGlyph, LastSiblingGlyph, NoChildrenGlyph>>
        /\ cursor = 5 => Prefix(stdout, 2) = <<LastSiblingGlyph, NoChildrenGlyph>>

\* C8 amended: both lines begin with the glyph of the root ancestor, a space
\* (a root counts as a last sibling): b's line is space, vertical connector,
\* last-sibling corner, no-children glyph, branch; c's line is space,
\* last-sibling corner, no-children glyph, branch.
C8_Lines ==
    (cmd = "print" /\ pc = "print" /\ TwoLevelForest) =>
        LET a == nodes[roots[1]].children[1]
            c == nodes[roots[1]].children[2]
            b == nodes[a].children[1]
        IN  /\ cursor = 4 =>
                 Prefix(stdout, 5) = <<SpaceGlyph, VerticalGlyph, LastSiblingGlyph,
                                       NoChildrenGlyph, BranchOf(b)>>
            /\ cursor = 5 =>
                 Prefix(stdout, 4) = <<SpaceGlyph, LastSiblingGlyph, NoChildrenGlyph, BranchOf(c)>>

C8_Witness ==
    /\ cmd = "print" /\ pc = "print" /\ TwoLevelForest /\ cursor = 5
    /\ prs = <<PrInfo("X", "M", TRUE), PrInfo("Z", "M", TRUE), PrInfo("Y", "X", TRUE)>>
    /\ Prefix(stdout, 4) = <<SpaceGlyph, LastSiblingGlyph, NoChildrenGlyph, "Z">>

\* ---- C9
BaseOldest(i) == base_commits[Len(base_commits) + 1 - i]

ChildOldest(i) == child_commits[Len(child_commits) + 1 - i]

Matched(k) ==
    /\ k <= Len(base_commits)
    /\ k <= Len(child_commits)
    /\ \A i \in 1..k : BaseOldest(i).message = ChildOldest(i).message

\* the length of the run of equal messages from the oldest commits on
MatchedRun == CHOOSE k \in 0..Len(child_commits) : Matched(k) /\ ~Matched(k + 1)

MessagesOf(commits) == [i \in DOMAIN commits |-> commits[i].message]

\* C9: the result is the child commit of the last pair of the run of equal
\* messages that starts at the oldest commits, and no refinement when the
\* oldest messages differ or a list is empty; base m0,m1,m2 and child m0,m1,m3
\* (oldest first) give the child commit of m1.
C9_StartCommit ==
    filtered_start # Unset =>
        /\ filtered_start = IF MatchedRun >= 1 THEN ChildOldest(MatchedRun).sha ELSE NoSha
        /\ (/\ MessagesOf(base_commits) = <<"m2", "m1", "m0">>
            /\ MessagesOf(child_commits) = <<"m3", "m1", "m0">>)
               => filtered_start = child_commits[2].sha

C9_Witness ==
    /\ filtered_start = Sha("Y", "remote", 1)
    /\ MessagesOf(base_commits) = <<"m2", "m1", "m0">>
    /\ MessagesOf(child_commits) = <<"m3", "m1", "m0">>

====
